---- MODULE Spec2Model ----
(***************************************************************************)
(* The 1D scattering transform frontend of kymatio                         *)
(* (kymatio/scattering1d/frontend): the path enumeration of                *)
(* compute_meta_scattering and precompute_size_scattering, the padding     *)
(* plan of build, filter registration and the forward call.                *)
(*                                                                         *)
(* Conventions.  Python indices are 0-based and TLA+ sequences 1-based:    *)
(* the filter with Python index n is element n + 1 of its list.  Floating  *)
(* point values (xi, sigma) are abstract integer tokens; math.nan is the   *)
(* token NaN, which no filter value equals.                                *)
(***************************************************************************)
EXTENDS Integers, Sequences, FiniteSets, TLC

\* Largest maximum log-scale J and largest number Q of wavelets per octave
\* of the calibrations the static methods are applied to.
MaxJ == 1
MaxQ == 2

\* Largest J of a constructed transform, longest signal, largest support of
\* the low-pass filter.
MaxBuildJ == 2
MaxT == 6
MaxSupport == 2

\* Largest oversampling, largest number of batch axes of an input and
\* largest size of a batch axis.
MaxOversampling == 1
MaxBatchAxes == 1
MaxBatch == 2
\* the exponents searched for a logarithm: 2**MaxLog2 exceeds every length
MaxLog2 == 10

\* Backend arrays: the last two axes have lengths 2**0..2**MaxLogSize, the
\* subsampling argument k is 0..MaxK, fft is chained MaxChain times.
MaxLogSize == 1
MaxK == 2
MaxChain == 2

\* math.nan, the padding sentinel of compute_meta_scattering.
NaN == -1

VARIABLES
    J,          \* the maximum log-scale given to the transform
    Q,          \* the number of first-order wavelets per octave
    calib,      \* what calibrate_scattering_filters(J, Q) returns
    t_max_phi,  \* the support of the low-pass filter the filter factory reports
    metaOut,    \* the last call of compute_meta_scattering: arguments and result
    sizeOut,    \* the last call of precompute_size_scattering: arguments and result
    self,       \* the transform object: its class and attributes
    buffers,    \* the buffers registered on the object: 'tensor' + str(n) is buffers[n + 1]
    call,       \* the last operation called on the object
    raised,     \* the exception the last operation raised to its caller
    out,        \* what the last operation returned
    A,          \* the array the caller gives to a backend function
    B,          \* the second operand the caller gives to cdgmm
    ret         \* the last backend call: the function, what it raised and returned

inputs == <<J, Q, calib, t_max_phi>>
statics == <<metaOut, sizeOut>>
object == <<self, buffers, call, raised, out>>
arrays == <<A, B, ret>>
vars == <<J, Q, calib, t_max_phi, metaOut, sizeOut, self, buffers, call, raised, out,
          A, B, ret>>

----------------------------------------------------------------------------
(* Helpers *)

Max0(a) == IF a > 0 THEN a ELSE 0
Min2(a, b) == IF a < b THEN a ELSE b

RECURSIVE SumSeq(_)
SumSeq(s) == IF s = <<>> THEN 0 ELSE Head(s) + SumSeq(Tail(s))

\* Python's tuple * count: count copies of the 1-tuple (v,), none if count <= 0.
Repeat(v, count) == [i \in 1..Max0(count) |-> v]

----------------------------------------------------------------------------
(* The Filter Calibrator.  Its output is a triple of parallel sequences    *)
(* (xi, sigma, j) per order, ordered from the highest to the lowest centre *)
(* frequency, so the dyadic scales j never decrease along a list; order 1  *)
(* has at most Q wavelets per octave and order 2 at most one; J <= 0 gives *)
(* only the low-pass.                                                      *)

RECURSIVE FromCounts(_, _, _)
FromCounts(m, v, top) ==
    IF v > top THEN <<>> ELSE [i \in 1..m[v] |-> v] \o FromCounts(m, v + 1, top)

\* The scale lists with at most per filters at each scale 0..Jv.
ScaleLists(Jv, per) ==
    IF Jv <= 0 THEN {<<>>}
    ELSE {FromCounts(m, 0, Jv) : m \in [0..Jv -> 0..per]}

Calibration(j1, j2) ==
    [sigma_low |-> 0,
     xi1s    |-> [i \in 1..Len(j1) |-> 100 + (Len(j1) - i)],
     sigma1s |-> [i \in 1..Len(j1) |-> 200 + (Len(j1) - i)],
     j1s     |-> j1,
     xi2s    |-> [i \in 1..Len(j2) |-> 300 + (Len(j2) - i)],
     sigma2s |-> [i \in 1..Len(j2) |-> 400 + (Len(j2) - i)],
     j2s     |-> j2]

Calibrations(Jv, Qv) ==
    {Calibration(j1, j2) : j1 \in ScaleLists(Jv, Qv), j2 \in ScaleLists(Jv, 1)}

\* calibrate_scattering_filters is deterministic: every call with the same
\* (J, Q) returns the calibration drawn for it.
calibrate_scattering_filters(Jv, Qv) == calib

----------------------------------------------------------------------------
(* compute_meta_scattering *)

Fields == {"order", "xi", "sigma", "j", "n", "key"}

\* meta[field][o].append(row[field]) for every field
MetaAppend(meta, o, row) ==
    [f \in Fields |-> [meta[f] EXCEPT ![o + 1] = Append(@, row[f])]]

\* zip(a, b, c) stops at the shortest list
ZipLen(a, b, c) == Min2(Len(a), Min2(Len(b), Len(c)))

\* (mutant) the inner loop starts at the second filter: pair (n1, 0) is skipped
RECURSIVE MetaInnerLoop_skip(_, _, _, _)
MetaInnerLoop_skip(c, meta, i1, i2) ==
    IF i2 > ZipLen(c.xi2s, c.sigma2s, c.j2s) THEN meta
    ELSE MetaInnerLoop_skip(c,
            IF c.j2s[i2] > c.j1s[i1] /\ i2 > 1
            THEN MetaAppend(meta, 2,
                    [order |-> 2,
                     xi    |-> <<c.xi1s[i1], c.xi2s[i2]>>,
                     sigma |-> <<c.sigma1s[i1], c.sigma2s[i2]>>,
                     j     |-> <<c.j1s[i1], c.j2s[i2]>>,
                     n     |-> <<i1 - 1, i2 - 1>>,
                     key   |-> <<i1 - 1, i2 - 1>>])
            ELSE meta,
            i1, i2 + 1)

\* the inner loop over (n2, (xi2, sigma2, j2)), from element i2 on
RECURSIVE MetaInnerLoop(_, _, _, _)
MetaInnerLoop(c, meta, i1, i2) ==
    IF i2 > ZipLen(c.xi2s, c.sigma2s, c.j2s) THEN meta
    ELSE MetaInnerLoop(c,
            IF c.j2s[i2] > c.j1s[i1]
            THEN MetaAppend(meta, 2,
                    [order |-> 2,
                     xi    |-> <<c.xi1s[i1], c.xi2s[i2]>>,
                     sigma |-> <<c.sigma1s[i1], c.sigma2s[i2]>>,
                     j     |-> <<c.j1s[i1], c.j2s[i2]>>,
                     n     |-> <<i1 - 1, i2 - 1>>,
                     key   |-> <<i1 - 1, i2 - 1>>])
            ELSE meta,
            i1, i2 + 1)

\* the outer loop over (n1, (xi1, sigma1, j1)), from element i1 on
RECURSIVE MetaOuterLoop(_, _, _, _)
MetaOuterLoop(c, meta, max_order, i1) ==
    IF i1 > ZipLen(c.xi1s, c.sigma1s, c.j1s) THEN meta
    ELSE LET m1 == MetaAppend(meta, 1,
                    [order |-> 1,
                     xi    |-> <<c.xi1s[i1]>>,
                     sigma |-> <<c.sigma1s[i1]>>,
                     j     |-> <<c.j1s[i1]>>,
                     n     |-> <<i1 - 1>>,
                     key   |-> <<i1 - 1>>])
         IN  MetaOuterLoop(c,
                IF max_order < 2 THEN m1 ELSE MetaInnerLoop(c, m1, i1, 1),
                max_order, i1 + 1)

\* (mutant) the lists joined in the order the loops filled them: order 1 last
MetaConcat_generated(meta) ==
    [f \in Fields |-> meta[f][1] \o meta[f][3] \o meta[f][2]]

\* meta[field] = value[0] + value[1] + value[2]
MetaConcat(meta) == [f \in Fields |-> meta[f][1] \o meta[f][2] \o meta[f][3]]

\* (mutant) pads one entry short
MetaPad_short(meta, pad_len) ==
    [f \in Fields |->
        IF f \in {"xi", "sigma", "j", "n"}
        THEN [p \in 1..Len(meta[f]) |->
                meta[f][p] \o Repeat(NaN, pad_len - Len(meta[f][p]) - 1)]
        ELSE meta[f]]

\* x + (math.nan,) * (pad_len - len(x)) for the fields xi, sigma, j, n
MetaPad(meta, pad_len) ==
    [f \in Fields |->
        IF f \in {"xi", "sigma", "j", "n"}
        THEN [p \in 1..Len(meta[f]) |->
                meta[f][p] \o Repeat(NaN, pad_len - Len(meta[f][p]))]
        ELSE meta[f]]

\* np.array(rows): a (C, L) array when every row has the same length L, a
\* one-dimensional array of C objects otherwise.
ArrayShape2(rows) ==
    IF rows # <<>> /\ \A p \in 1..Len(rows) : Len(rows[p]) = Len(rows[1])
    THEN <<Len(rows), Len(rows[1])>>
    ELSE <<Len(rows)>>

\* torch.from_numpy(np.array(meta[field])) for order, xi, sigma, j, n
MetaArrays(meta) ==
    [f \in Fields |->
        IF f = "key" THEN meta[f]
        ELSE [shape |-> IF f = "order" THEN <<Len(meta[f])>> ELSE ArrayShape2(meta[f]),
              data  |-> meta[f]]]

compute_meta_scattering(Jv, Qv, max_order) ==
    LET c  == calibrate_scattering_filters(Jv, Qv)
        m0 == [f \in Fields |->
                 <<IF f = "order" THEN <<0>> ELSE << <<>> >>, <<>>, <<>> >>]
    IN  MetaArrays(MetaPad(MetaConcat(MetaOuterLoop(c, m0, max_order, 1)),
                           max_order))

----------------------------------------------------------------------------
(* precompute_size_scattering *)

\* (mutant) counts the pairs with j2 >= j1
RECURSIVE SizeInnerLoop_ge(_, _, _, _)
SizeInnerLoop_ge(c, size_order2, i1, i2) ==
    IF i2 > Len(c.xi2s) THEN size_order2
    ELSE SizeInnerLoop_ge(c,
            IF c.j2s[i2] >= c.j1s[i1] THEN size_order2 + 1 ELSE size_order2,
            i1, i2 + 1)

RECURSIVE SizeInnerLoop(_, _, _, _)
SizeInnerLoop(c, size_order2, i1, i2) ==
    IF i2 > Len(c.xi2s) THEN size_order2
    ELSE SizeInnerLoop(c,
            IF c.j2s[i2] > c.j1s[i1] THEN size_order2 + 1 ELSE size_order2,
            i1, i2 + 1)

RECURSIVE SizeOuterLoop(_, _, _)
SizeOuterLoop(c, size_order2, i1) ==
    IF i1 > Len(c.xi1s) THEN size_order2
    ELSE SizeOuterLoop(c, SizeInnerLoop(c, size_order2, i1, 1), i1 + 1)

precompute_size_scattering(Jv, Qv, max_order, detail) ==
    LET c == calibrate_scattering_filters(Jv, Qv)
        size_order0 == 1
        size_order1 == Len(c.xi1s)
        size_order2 == SizeOuterLoop(c, 0, 1)
    IN  IF detail
        THEN IF max_order = 2
             THEN <<size_order0, size_order1, size_order2>>
             ELSE <<size_order0, size_order1>>
        ELSE IF max_order = 2
             THEN size_order0 + size_order1 + size_order2
             ELSE size_order0 + size_order1

----------------------------------------------------------------------------
(* The static functions as operations *)

NoCall == [called |-> FALSE]

\* no array yet
NoArray == [shape |-> <<>>, data |-> <<>>, den |-> 1]

\* no object yet: no class, no attribute
NoObject ==
    [cls |-> "", attrs |-> {},
     J |-> 0, shape |-> [kind |-> "none", dims |-> <<>>], Q |-> 0,
     max_order |-> 0, average |-> FALSE, oversampling |-> 0,
     vectorize |-> FALSE, backend |-> "",
     T |-> 0, J_pad |-> 0, pad_left |-> 0, pad_right |-> 0,
     ind_start |-> <<>>, ind_end |-> <<>>,
     phi_f |-> <<>>, psi1_f |-> <<>>, psi2_f |-> <<>>]

NoExc == [type |-> "", msg |-> "", context |-> <<>>]
NoOp == [op |-> "none"]

----------------------------------------------------------------------------
(* Exceptions.  An exception raised while another one is being handled     *)
(* keeps the handled one as its context.                                   *)

Exc(type, msg) == [type |-> type, msg |-> msg, context |-> <<>>]
ExcFrom(type, msg, handled) ==
    [type |-> type, msg |-> msg, context |-> <<handled.type, handled.msg>>]

----------------------------------------------------------------------------
(* Integer logarithms and powers *)

RECURSIVE Pow2(_)
Pow2(k) == IF k <= 0 THEN 1 ELSE 2 * Pow2(k - 1)

\* int(np.floor(np.log2(n))) for n >= 1
RECURSIVE FloorLog2(_)
FloorLog2(n) == IF n <= 1 THEN 0 ELSE 1 + FloorLog2(n \div 2)

\* int(np.ceil(np.log2(n))) for n >= 1
CeilLog2(n) == IF n <= 1 THEN 0 ELSE 1 + FloorLog2(n - 1)

----------------------------------------------------------------------------
(* The Filter Bank Builder (scattering_filter_factory).  A filter is a     *)
(* dictionary: one array per resolution 0..its maximal subsampling, then   *)
(* the metadata under the string keys 'xi', 'sigma' and 'j'.  A dictionary *)
(* is the sequence of its entries in insertion order.                      *)

IntKey(r) == [type |-> "int", name |-> "", k |-> r]
StrKey(name) == [type |-> "str", name |-> name, k |-> 0]

\* the filter `kind` (0 low-pass, 1 first order, 2 second order) number n
\* at resolution r, sampled for a padded length 2**J_support
NumpyArray(kind, n, r, J_support) ==
    [lib |-> "numpy", filt |-> <<kind, n, r>>, size |-> Pow2(J_support - r),
     device |-> "cpu"]
Number(v) == [lib |-> "float", filt |-> <<v>>, size |-> 0, device |-> ""]

FilterDict(kind, n, maxres, J_support, xi, sigma, j) ==
    [i \in 1..(maxres + 1) |->
        [key |-> IntKey(i - 1), val |-> NumpyArray(kind, n, i - 1, J_support)]]
    \o << [key |-> StrKey("xi"), val |-> Number(xi)],
          [key |-> StrKey("sigma"), val |-> Number(sigma)],
          [key |-> StrKey("j"), val |-> Number(j)] >>

scattering_filter_factory(J_support, Jv, Qv) ==
    LET c == calibrate_scattering_filters(Jv, Qv)
    IN  [phi_f  |-> FilterDict(0, 0, Max0(Jv), J_support, 0, c.sigma_low, 0),
         psi1_f |-> [i \in 1..Len(c.j1s) |->
                       FilterDict(1, i - 1, c.j1s[i], J_support,
                                  c.xi1s[i], c.sigma1s[i], c.j1s[i])],
         psi2_f |-> [i \in 1..Len(c.j2s) |->
                       FilterDict(2, i - 1, c.j2s[i], J_support,
                                  c.xi2s[i], c.sigma2s[i], c.j2s[i])],
         t_max_phi |-> t_max_phi]

----------------------------------------------------------------------------
(* The Padding Planner helpers (kymatio.scattering1d.utils) *)

\* the signal centred in a buffer of length 2**J_pad
compute_padding(J_pad, T) ==
    LET to_add   == Pow2(J_pad) - T
        pad_left == IF to_add >= 0 THEN to_add \div 2 ELSE 0 - ((1 - to_add) \div 2)
    IN  <<pad_left, to_add - pad_left>>

\* the index i once subsampled r times by two
RECURSIVE Subsampled(_, _)
Subsampled(i, r) ==
    IF r = 0 THEN i
    ELSE LET h == Subsampled(i, r - 1) IN (h \div 2) + (h % 2)

\* for every resolution 0..Jv the interval of the signal [i0, i1) once
\* subsampled by 2**resolution
compute_border_indices(Jv, i0, i1) ==
    << [r \in 0..Jv |-> Subsampled(i0, r)], [r \in 0..Jv |-> Subsampled(i1, r)] >>

----------------------------------------------------------------------------
(* Scattering1DTorch.compute_minimum_support_to_pad *)

compute_minimum_support_to_pad(T, Jv, Qv) ==
    LET J_tentative == CeilLog2(T)
        factory     == scattering_filter_factory(J_tentative, Jv, Qv)
        min_to_pad  == 3 * factory.t_max_phi
    IN  min_to_pad

----------------------------------------------------------------------------
(* Scattering1DTorch.create_and_register_filters *)

\* torch.from_numpy(a).view(-1, 1).repeat(1, 2)
FromNumpy(a) == [a EXCEPT !.lib = "torch"]

\* self.register_buffer('tensor' + str(n), t)
RegisterBuffer(bufs, n, t) ==
    IF n + 1 <= Len(bufs) THEN [bufs EXCEPT ![n + 1] = t] ELSE Append(bufs, t)

\* for k in d.keys(): if type(k) != str: convert d[k], register it, n += 1
\* (from entry i on).  acc is [d, n, bufs].
RECURSIVE RegisterDict(_, _)
RegisterDict(acc, i) ==
    IF i > Len(acc.d) THEN acc
    ELSE IF acc.d[i].key.type # "str"
         THEN LET t == FromNumpy(acc.d[i].val)
              IN  RegisterDict([d    |-> [acc.d EXCEPT ![i].val = t],
                                n    |-> acc.n + 1,
                                bufs |-> RegisterBuffer(acc.bufs, acc.n, t)],
                               i + 1)
         ELSE RegisterDict(acc, i + 1)

\* for psi_f in psi_list: the loop above on psi_f (from filter i on).
\* acc is [list, n, bufs].
RECURSIVE RegisterList(_, _)
RegisterList(acc, i) ==
    IF i > Len(acc.list) THEN acc
    ELSE LET r == RegisterDict([d |-> acc.list[i], n |-> acc.n, bufs |-> acc.bufs], 1)
         IN  RegisterList([list |-> [acc.list EXCEPT ![i] = r.d],
                           n    |-> r.n,
                           bufs |-> r.bufs],
                          i + 1)

\* lines 247-255: n = 0, then the low-pass filter.  f is the factory's
\* result and the buffers so far; the counter n is added to it.
register_phi(f) ==
    [f EXCEPT !.phi_f = RegisterDict([d |-> f.phi_f, n |-> 0, bufs |-> f.bufs], 1)]

\* lines 256-263: the first-order filters
register_psi1(f) ==
    [f EXCEPT !.psi1_f = RegisterList([list |-> f.psi1_f, n |-> f.phi_f.n,
                                       bufs |-> f.phi_f.bufs], 1)]

\* lines 264-271: the second-order filters
register_psi2(f) ==
    [f EXCEPT !.psi2_f = RegisterList([list |-> f.psi2_f, n |-> f.psi1_f.n,
                                       bufs |-> f.psi1_f.bufs], 1)]

\* lines 273-275: the three filter banks become attributes of the object
store_filters(s, f) ==
    [self    |-> [s EXCEPT !.psi1_f = f.psi1_f.list, !.psi2_f = f.psi2_f.list,
                           !.phi_f = f.phi_f.d,
                           !.attrs = @ \cup {"psi1_f", "psi2_f", "phi_f"}],
     buffers |-> f.psi2_f.bufs,
     raised  |-> NoExc]

\* the factory's result together with the module's buffers
with_buffers(factory, bufs) ==
    [phi_f |-> factory.phi_f, psi1_f |-> factory.psi1_f,
     psi2_f |-> factory.psi2_f, bufs |-> bufs]

\* returns the object and its buffers
create_and_register_filters(s, bufs) ==
    store_filters(s,
        register_psi2(register_psi1(register_phi(
            with_buffers(scattering_filter_factory(s.J_pad, s.J, s.Q), bufs)))))

----------------------------------------------------------------------------
(* Scattering1DTorch.build *)

\* backend.name[0:5]
Prefix5(name) ==
    CASE name = "torch"        -> "torch"
      [] name = "torch_skcuda" -> "torch"
      [] name = "numpy"        -> "numpy"
      [] name = "tensorflow"   -> "tenso"
      [] OTHER                 -> name

\* the prefix a frontend class asks of its backend's name
FrontendPrefix(cls) ==
    CASE cls = "Scattering1DTorch"      -> "torch"
      [] cls = "Scattering1DNumpy"      -> "numpy"
      [] cls = "Scattering1DTensorflow" -> "tenso"
      [] OTHER                          -> ""

\* the backend module a frontend class imports when none is given
DefaultBackend(cls) ==
    CASE cls = "Scattering1DTorch"      -> "torch"
      [] cls = "Scattering1DNumpy"      -> "numpy"
      [] cls = "Scattering1DTensorflow" -> "tensorflow"
      [] OTHER                          -> ""

Raise(s, bufs, exc) == [self |-> s, buffers |-> bufs, raised |-> exc]

\* (mutant) J_pad without the ceiling floor(log2(3 * T - 2))
J_pad_of_uncapped(T, min_to_pad) == CeilLog2(T + 2 * min_to_pad)

\* J_pad = min(ceil(log2(T + 2 * min_to_pad)), floor(log2(3 * T - 2)))
J_pad_of(T, min_to_pad) ==
    LET J_max_support == FloorLog2(3 * T - 2)
    IN  Min2(CeilLog2(T + 2 * min_to_pad), J_max_support)

\* (mutant) the padding computed for the scattering scale J
padding_J_scale(s, J_pad) == s.J

\* the log-length compute_padding is called with (line 229)
padding_J(s, J_pad) == J_pad

\* (mutant) the border indices computed for the levels 0..J_pad
border_J_pad(s, J_pad) == J_pad

\* the number of levels compute_border_indices is called with (line 231)
border_J(s, J_pad) == s.J

\* lines 217-226: self.J_pad
build_J_pad(s) ==
    [s EXCEPT !.J_pad = J_pad_of(s.T, compute_minimum_support_to_pad(s.T, s.J, s.Q)),
              !.attrs = @ \cup {"J_pad"}]

\* self.pad_left, self.pad_right = pads
set_pads(s, pads) ==
    [s EXCEPT !.pad_left = pads[1], !.pad_right = pads[2],
              !.attrs = @ \cup {"pad_left", "pad_right"}]

\* lines 228-229: the padding of the signal
build_pads(s) == set_pads(s, compute_padding(padding_J(s, s.J_pad), s.T))

\* self.ind_start, self.ind_end = inds
set_inds(s, inds) ==
    [s EXCEPT !.ind_start = inds[1], !.ind_end = inds[2],
              !.attrs = @ \cup {"ind_start", "ind_end"}]

\* lines 230-232: the borders of the signal at every resolution
build_inds(s) ==
    set_inds(s, compute_border_indices(border_J(s, s.J_pad),
                                       s.pad_left, s.pad_left + s.T))

\* lines 217-233: the padding plan, then the filters
build_padding(s, bufs) ==
    create_and_register_filters(build_inds(build_pads(build_J_pad(s))), bufs)

\* (mutant) a tuple of several lengths is taken for its first one
build_shape_first(s, bufs) ==
    IF s.shape.kind \notin {"int", "tuple"}
    THEN Raise(s, bufs, Exc("ValueError", "shape must be an integer or a 1-tuple"))
    ELSE IF s.shape.kind = "tuple" /\ Len(s.shape.dims) = 0
    THEN Raise(s, bufs, Exc("IndexError", "tuple index out of range"))
    ELSE build_padding([s EXCEPT !.T = s.shape.dims[1], !.attrs = @ \cup {"T"}], bufs)

\* lines 206-215: check the shape
build_shape(s, bufs) ==
    IF s.shape.kind \notin {"int", "tuple"}
    THEN Raise(s, bufs, Exc("ValueError", "shape must be an integer or a 1-tuple"))
    ELSE IF s.shape.kind = "tuple" /\ Len(s.shape.dims) = 0
    THEN Raise(s, bufs, Exc("IndexError", "tuple index out of range"))
    ELSE IF s.shape.kind = "tuple" /\ Len(s.shape.dims) > 1
    THEN Raise([s EXCEPT !.T = s.shape.dims[1], !.attrs = @ \cup {"T"}], bufs,
               Exc("ValueError",
                   "If shape is specified as a tuple, it must have exactly one element"))
    ELSE build_padding([s EXCEPT !.T = s.shape.dims[1], !.attrs = @ \cup {"T"}], bufs)

\* lines 192-204: the backend, then the fixed numerical parameters
build(s, bufs) ==
    IF s.backend # "" /\ Prefix5(s.backend) # FrontendPrefix(s.cls)
    THEN Raise(s, bufs, Exc("RuntimeError", "This backend is not supported."))
    ELSE build_shape([s EXCEPT !.backend = IF @ = "" THEN DefaultBackend(s.cls) ELSE @,
                               !.attrs = @ \cup {"r_psi", "sigma0", "alpha", "P_max",
                                                 "eps", "criterion_amplitude",
                                                 "normalize"}],
                     bufs)

\* Scattering1DTorch.__init__ on the object s (of class s.cls): the
\* module's buffers start empty, the parameters are stored, build() runs.
init(s, args) ==
    build([s EXCEPT !.J = args.J, !.shape = args.shape, !.Q = args.Q,
                    !.max_order = args.max_order, !.average = args.average,
                    !.oversampling = args.oversampling,
                    !.vectorize = args.vectorize, !.backend = args.backend,
                    !.attrs = @ \cup {"J", "shape", "Q", "max_order", "average",
                                      "oversampling", "vectorize", "backend"}],
          <<>>)

----------------------------------------------------------------------------
(* Scattering1D.__init__ (frontend/__init__.py): the dispatch on the       *)
(* 'frontend' keyword.  frontend = "" stands for no 'frontend' keyword.    *)

FrontendClass(frontend) ==
    CASE frontend = "numpy"      -> "Scattering1DNumpy"
      [] frontend = "torch"      -> "Scattering1DTorch"
      [] frontend = "tensorflow" -> "Scattering1DTensorflow"
      [] OTHER                   -> ""

InstallHint(frontend) ==
    CASE frontend = "numpy"      -> "Make sure NumPy is correctly installed."
      [] frontend = "torch"      -> "Make sure PyTorch is correctly installed."
      [] frontend = "tensorflow" -> "Make sure TensorFlow is correctly installed."
      [] OTHER                   -> ""

\* try: self.__class__ = <frontend class>; self.__init__(*args, **kwargs)
\* except: raise RuntimeError(<install hint>)
\* (mutant) the torch frontend when no keyword is given
FrontendOf_torch(kwfrontend) == IF kwfrontend = "" THEN "torch" ELSE kwfrontend

\* kwargs.pop('frontend') when the keyword is given, 'numpy' otherwise
FrontendOf(kwfrontend) == IF kwfrontend = "" THEN "numpy" ELSE kwfrontend

\* except: raise RuntimeError(<install hint>), on the outcome r of the try
except_install(r, frontend) ==
    IF r.raised # NoExc
    THEN [r EXCEPT !.raised = ExcFrom("RuntimeError", InstallHint(frontend), @)]
    ELSE r

Scattering1D_init(s, kwfrontend, args) ==
    IF FrontendOf(kwfrontend) \in {"numpy", "torch", "tensorflow"}
    THEN except_install(
             init([s EXCEPT !.cls = FrontendClass(FrontendOf(kwfrontend))], args),
             FrontendOf(kwfrontend))
    ELSE Raise(s, <<>>, Exc("RuntimeError", "This frontend is not available."))

----------------------------------------------------------------------------
(* The Scattering Cascade (kymatio.scattering1d.core.scattering1d).  Only  *)
(* the shape of what it returns is modelled: with vectorize, one array of  *)
(* (batch, C, T1), C the sum of size_scattering; without, a dictionary     *)
(* keyed by the paths, each value of shape (batch, 1, length).             *)

RECURSIVE Product(_)
Product(s) == IF s = <<>> THEN 1 ELSE Head(s) * Product(Tail(s))

\* the length of the unpadded signal at resolution max(j - oversampling, 0)
LengthAt(s, j) ==
    LET k == Min2(Max0(j - s.oversampling), s.J)
    IN  s.ind_end[k] - s.ind_start[k]

\* without vectorize: one entry per path of meta
scattering1d_dict(s, batch, meta) ==
    [kind   |-> "dict",
     keys   |-> meta.key,
     shapes |-> [p \in 1..Len(meta.key) |->
                   <<batch, 1,
                     IF s.average \/ Len(meta.key[p]) = 0
                     THEN LengthAt(s, s.J)
                     ELSE LengthAt(s, meta.j.data[p][Len(meta.key[p])])>>]]

scattering1d(s, batch, size_scattering) ==
    IF s.vectorize
    THEN [kind |-> "tensor", shape |-> <<batch, SumSeq(size_scattering), LengthAt(s, s.J)>>]
    ELSE scattering1d_dict(s, batch, compute_meta_scattering(s.J, s.Q, s.max_order))

----------------------------------------------------------------------------
(* Scattering1DTorch.forward *)

\* for k in d.keys(): if type(k) != str: d[k] = buffer_dict['tensor' + str(n)];
\* n += 1 (from entry i on).  acc is [d, n, raised].
RECURSIVE RefreshDict(_, _, _)
RefreshDict(acc, bufs, i) ==
    IF i > Len(acc.d) \/ acc.raised # NoExc THEN acc
    ELSE IF acc.d[i].key.type # "str"
         THEN IF acc.n + 1 > Len(bufs)
              THEN [acc EXCEPT !.raised = Exc("KeyError", "tensor")]
              ELSE RefreshDict([d      |-> [acc.d EXCEPT ![i].val = bufs[acc.n + 1]],
                                n      |-> acc.n + 1,
                                raised |-> NoExc],
                               bufs, i + 1)
         ELSE RefreshDict(acc, bufs, i + 1)

\* for psi_f in psi_list: the loop above on psi_f (from filter i on).
\* acc is [list, n, raised].
RECURSIVE RefreshList(_, _, _)
RefreshList(acc, bufs, i) ==
    IF i > Len(acc.list) \/ acc.raised # NoExc THEN acc
    ELSE LET r == RefreshDict([d |-> acc.list[i], n |-> acc.n, raised |-> NoExc],
                              bufs, 1)
         IN  RefreshList([list   |-> [acc.list EXCEPT ![i] = r.d],
                          n      |-> r.n,
                          raised |-> r.raised],
                         bufs, i + 1)

\* self.phi_f as the loop r = [d, n, raised] left it.  The result is
\* [self, n, raised]: the object, the buffer counter and the exception.
StorePhi(s, r) == [self |-> [s EXCEPT !.phi_f = r.d], n |-> r.n, raised |-> r.raised]

\* lines 365-371: n = 0, then the low-pass filter
RefreshPhi(s, bufs) ==
    StorePhi(s, RefreshDict([d |-> s.phi_f, n |-> 0, raised |-> NoExc], bufs, 1))

\* lines 372-377: for psi_f in self.psi1_f: ... self.psi_f[sub_k] = ...
\* The object has no attribute psi_f: the first non-string key raises,
\* after the buffer has been looked up.  acc is [self, n, raised].
RefreshPsi1(acc, bufs) ==
    IF acc.raised # NoExc THEN acc
    ELSE IF \E i \in 1..Len(acc.self.psi1_f) :
               \E e \in 1..Len(acc.self.psi1_f[i]) :
                  acc.self.psi1_f[i][e].key.type # "str"
    THEN IF acc.n + 1 > Len(bufs)
         THEN [acc EXCEPT !.raised = Exc("KeyError", "tensor")]
         ELSE [acc EXCEPT !.raised =
                  Exc("AttributeError", "object has no attribute 'psi_f'")]
    ELSE acc

\* self.psi2_f as the loop r = [list, n, raised] left it
StorePsi2(acc, r) ==
    [self |-> [acc.self EXCEPT !.psi2_f = r.list], n |-> r.n, raised |-> r.raised]

\* lines 378-383: the second-order filters
RefreshPsi2(acc, bufs) ==
    IF acc.raised # NoExc THEN acc
    ELSE StorePsi2(acc, RefreshList([list |-> acc.self.psi2_f, n |-> acc.n,
                                     raised |-> NoExc], bufs, 1))

\* lines 365-383: the filters are fetched again from the registered buffers
RefreshFilters(s, bufs) == RefreshPsi2(RefreshPsi1(RefreshPhi(s, bufs), bufs), bufs)

NoOut == [kind |-> "none"]

\* lines 385-401: the cascade, then the batch axes put back
\* x.shape[:-1]
batch_shape(x_shape) == SubSeq(x_shape, 1, Len(x_shape) - 1)

\* lines 393-399: the batch axes put back on the result S of the cascade
forward_reshape(s, x_shape, S) ==
    IF s.vectorize
    THEN [kind |-> "tensor", shape |-> batch_shape(x_shape) \o SubSeq(S.shape, 2, 3)]
    ELSE [kind   |-> "dict",
          keys   |-> S.keys,
          shapes |-> [p \in 1..Len(S.keys) |->
                        batch_shape(x_shape) \o SubSeq(S.shapes[p], 2, 3)]]

forward_cascade(s, x_shape, size_scattering) ==
    forward_reshape(s, x_shape,
        scattering1d(s, Product(batch_shape(x_shape)), size_scattering))

\* the cascade runs when the refresh r = [self, n, raised] raised nothing
forward_after(r, x_shape, size_scattering) ==
    IF r.raised # NoExc
    THEN [self |-> r.self, raised |-> r.raised, out |-> NoOut, cascade |-> FALSE]
    ELSE [self |-> r.self, raised |-> NoExc,
          out |-> forward_cascade(r.self, x_shape, size_scattering),
          cascade |-> TRUE]

\* lines 365-401: refresh the filters, run the cascade
forward_run(s, bufs, x_shape, size_scattering) ==
    forward_after(RefreshFilters(s, bufs), x_shape, size_scattering)

\* (mutant) the flags are checked after the filters were fetched again
forward_late_check(s, bufs, x_shape) ==
    IF Len(x_shape) < 1
    THEN [self |-> s, out |-> NoOut, cascade |-> FALSE,
          raised |-> Exc("ValueError", "Input tensor x should have at least one axis, got 0")]
    ELSE IF s.vectorize /\ ~s.average
    THEN [self |-> RefreshFilters(s, bufs).self, out |-> NoOut, cascade |-> FALSE,
          raised |-> Exc("ValueError",
              "Options average=False and vectorize=True are mutually incompatible. Please set vectorize to False.")]
    ELSE forward_run(s, bufs, x_shape,
                     IF s.vectorize
                     THEN precompute_size_scattering(s.J, s.Q, s.max_order, TRUE)
                     ELSE <<0>>)

\* lines 342-363: the checks on the input and on the flags
forward(s, bufs, x_shape) ==
    IF Len(x_shape) < 1
    THEN [self |-> s, out |-> NoOut, cascade |-> FALSE,
          raised |-> Exc("ValueError", "Input tensor x should have at least one axis, got 0")]
    ELSE IF s.vectorize /\ ~s.average
    THEN [self |-> s, out |-> NoOut, cascade |-> FALSE,
          raised |-> Exc("ValueError",
              "Options average=False and vectorize=True are mutually incompatible. Please set vectorize to False.")]
    ELSE forward_run(s, bufs, x_shape,
                     IF s.vectorize
                     THEN precompute_size_scattering(s.J, s.Q, s.max_order, TRUE)
                     ELSE <<0>>)

----------------------------------------------------------------------------
(* Operations on the object *)

\* the constructor's keyword and positional arguments
Args(shapes, backends, orders, oversamplings) ==
    [J : {J}, Q : {Q}, shape : shapes, backend : backends,
     max_order : orders, average : BOOLEAN, vectorize : BOOLEAN,
     oversampling : oversamplings]

IntShapes == {[kind |-> "int", dims |-> <<T>>] : T \in 1..MaxT}
TupleShapes ==
    {[kind |-> "tuple", dims |-> d] :
        d \in {<<>>} \cup {<<T>> : T \in 1..MaxT} \cup {<<T, T>> : T \in 1..MaxT}}
OtherShapes == {[kind |-> "other", dims |-> <<>>]}

\* cls(...) for cls one of Scattering1D (entry = "Scattering1D") and the
\* torch frontend class called directly (entry = "Scattering1DTorch")
\* object.__new__(cls), then cls.__init__: the outcome [self, buffers, raised]
New(entry, kwfrontend, args) ==
    IF entry = "Scattering1D"
    THEN Scattering1D_init([NoObject EXCEPT !.cls = entry], kwfrontend, args)
    ELSE init([NoObject EXCEPT !.cls = entry], args)

\* the outcome r of the constructor becomes the state
Constructs(r) ==
    /\ self' = r.self
    /\ buffers' = r.buffers
    /\ raised' = r.raised
    /\ out' = IF r.raised = NoExc THEN [kind |-> "object"] ELSE NoOut

Construct(entry, kwfrontend, args) ==
    /\ self.cls = ""
    /\ Constructs(New(entry, kwfrontend, args))
    /\ call' = [op |-> "construct", entry |-> entry, frontend |-> kwfrontend]
    /\ UNCHANGED <<inputs, arrays, statics>>

\* the constructor has returned the object
Constructed == "phi_f" \in self.attrs

\* self.forward(x) for an input of shape x_shape
\* the outcome r of forward becomes the state
Forwards(r, x_shape) ==
    /\ self' = r.self
    /\ raised' = r.raised
    /\ out' = r.out
    /\ call' = [op |-> "forward", x_shape |-> x_shape, cascade |-> r.cascade]

Forward(x_shape) ==
    /\ Constructed
    /\ Forwards(forward(self, buffers, x_shape), x_shape)
    /\ UNCHANGED <<inputs, arrays, statics, buffers>>

\* self.cuda() and self.cpu(): the module replaces each registered buffer by
\* its copy on the device; the filter dictionaries are not touched
Transfer(device) ==
    /\ Constructed
    /\ buffers' = [n \in 1..Len(buffers) |-> [buffers[n] EXCEPT !.device = device]]
    /\ raised' = NoExc
    /\ out' = [kind |-> "object"]
    /\ call' = [op |-> "transfer", device |-> device]
    /\ UNCHANGED <<inputs, arrays, statics, self>>

\* (mutant) assigning a flag builds the padding plan again, one level up
SetFlag_replan(flag, v) ==
    /\ Constructed
    /\ self' = build_inds(build_pads([self EXCEPT ![flag] = v, !.J_pad = @ + 1]))
    /\ raised' = NoExc
    /\ out' = NoOut
    /\ call' = [op |-> "set", flag |-> flag]
    /\ UNCHANGED <<inputs, arrays, statics, buffers>>

\* self.average = v, self.vectorize = v, self.oversampling = v
SetFlag(flag, v) ==
    /\ Constructed
    /\ self' = [self EXCEPT ![flag] = v]
    /\ raised' = NoExc
    /\ out' = NoOut
    /\ call' = [op |-> "set", flag |-> flag]
    /\ UNCHANGED <<inputs, arrays, statics, buffers>>

\* the calibration with Q wavelets per octave at order 1 and one at order 2
RegularCalibration(Jv, Qv) ==
    Calibration([i \in 1..(Max0(Jv) * Qv) |-> (i - 1) \div Qv],
                [i \in 1..Max0(Jv) |-> i - 1])

InitObject ==
    /\ J \in 0..MaxBuildJ
    /\ Q \in 1..MaxQ
    /\ calib = RegularCalibration(J, Q)
    /\ t_max_phi \in 0..MaxSupport
    /\ metaOut = NoCall
    /\ sizeOut = NoCall
    /\ self = NoObject
    /\ buffers = <<>>
    /\ call = NoOp
    /\ raised = NoExc
    /\ out = [kind |-> "none"]
    /\ A = NoArray
    /\ B = NoArray
    /\ ret = NoCall

NextBuild ==
    \/ \E args \in Args(IntShapes \cup TupleShapes \cup OtherShapes,
                        {"", "torch", "torch_skcuda", "numpy"}, {2}, {0}) :
          /\ args.average /\ args.vectorize
          /\ Construct("Scattering1DTorch", "", args)
    \/ \E args \in Args(IntShapes \cup TupleShapes \cup OtherShapes,
                        {"", "torch", "numpy"}, {2}, {0}),
          kwfrontend \in {"", "numpy", "torch", "tensorflow", "jax"} :
          /\ args.average /\ args.vectorize
          /\ Construct("Scattering1D", kwfrontend, args)

SpecBuild == InitObject /\ [][NextBuild]_vars

\* the shapes of the inputs given to forward: no axis, the signal axis, and
\* up to MaxBatchAxes batch axes of 1..MaxBatch signals before it
XShapes ==
    {<<>>} \cup
    UNION {{b \o <<self.T>> : b \in [1..k -> 1..MaxBatch]} : k \in 0..MaxBatchAxes}

Next ==
    \/ \E args \in Args({sh \in IntShapes : sh.dims[1] = MaxT},
                        {""}, {1, 2}, {0}),
          entry \in {"Scattering1D", "Scattering1DTorch"} :
          Construct(entry, IF entry = "Scattering1D" THEN "torch" ELSE "", args)
    \/ \E x_shape \in XShapes : Forward(x_shape)
    \/ \E device \in {"cpu", "cuda"} : Transfer(device)
    \/ \E v \in BOOLEAN : SetFlag("average", v)
    \/ \E v \in BOOLEAN : SetFlag("vectorize", v)
    \/ \E v \in 0..MaxOversampling : SetFlag("oversampling", v)

Init == InitObject /\ t_max_phi = MaxSupport

Spec == Init /\ [][Next]_vars

----------------------------------------------------------------------------
(* The static methods as operations *)

CallMeta(max_order) ==
    /\ metaOut' = [called |-> TRUE, max_order |-> max_order,
                   ret |-> compute_meta_scattering(J, Q, max_order)]
    /\ UNCHANGED <<inputs, arrays, sizeOut, object>>

CallSize(max_order, detail) ==
    /\ sizeOut' = [called |-> TRUE, max_order |-> max_order, detail |-> detail,
                   ret |-> precompute_size_scattering(J, Q, max_order, detail)]
    /\ UNCHANGED <<inputs, arrays, metaOut, object>>

InitMeta ==
    /\ J \in 0..MaxJ
    /\ Q \in 1..MaxQ
    /\ calib \in Calibrations(J, Q)
    /\ t_max_phi = 0
    /\ metaOut = NoCall
    /\ sizeOut = NoCall
    /\ self = NoObject
    /\ buffers = <<>>
    /\ call = NoOp
    /\ raised = NoExc
    /\ out = [kind |-> "none"]
    /\ A = NoArray
    /\ B = NoArray
    /\ ret = NoCall

NextMeta ==
    \/ \E max_order \in {1, 2} : CallMeta(max_order)
    \/ \E max_order \in {1, 2}, detail \in BOOLEAN : CallSize(max_order, detail)

SpecMeta == InitMeta /\ [][NextMeta]_vars

----------------------------------------------------------------------------
(* The numpy backend (kymatio/scattering2d/backend/numpy_backend.py).  An  *)
(* array is its shape, its entries by 0-based index tuple, and one common  *)
(* denominator: entry i has the complex value data[i] / den, data[i] a     *)
(* pair <<re, im>> of integers.  Lengths are 1, 2 or 4, for which the      *)
(* roots of unity of the discrete Fourier transform are 1, -1, i and -i.   *)

CAdd(a, b) == <<a[1] + b[1], a[2] + b[2]>>
CMul(a, b) == <<a[1] * b[1] - a[2] * b[2], a[1] * b[2] + a[2] * b[1]>>
CScale(a, k) == <<a[1] * k, a[2] * k>>

\* the index tuples of an array of the given shape
Index(shape) ==
    CASE Len(shape) = 1 -> {<<a>> : a \in 0..(shape[1] - 1)}
      [] Len(shape) = 2 -> (0..(shape[1] - 1)) \X (0..(shape[2] - 1))
      [] Len(shape) = 3 -> (0..(shape[1] - 1)) \X (0..(shape[2] - 1))
                               \X (0..(shape[3] - 1))
      [] Len(shape) = 4 -> (0..(shape[1] - 1)) \X (0..(shape[2] - 1))
                               \X (0..(shape[3] - 1)) \X (0..(shape[4] - 1))
      [] OTHER -> {}

\* x.ndim
Ndim(x) == Len(x.shape)

\* exp(-2 pi i e / 4)
Root4(e) ==
    CASE e % 4 = 0 -> <<1, 0>>
      [] e % 4 = 1 -> <<0, -1>>
      [] e % 4 = 2 -> <<-1, 0>>
      [] e % 4 = 3 -> <<0, 1>>

\* exp(-2 pi i k / n) for n in {1, 2, 4}, and its conjugate when inverse
Root(n, k, inverse) ==
    IF inverse THEN Root4(4 - ((k * (4 \div n)) % 4)) ELSE Root4(k * (4 \div n))

\* the sum of the m * n terms term[<<a, b>>], a < m, b < n, from term e on
RECURSIVE SumTerms(_, _, _, _)
SumTerms(term, m, n, e) ==
    IF e >= m * n THEN <<0, 0>>
    ELSE CAdd(term[<<e \div n, e % n>>], SumTerms(term, m, n, e + 1))

\* index i with its last two components replaced by a and b
AtLast2(i, a, b) == SubSeq(i, 1, Len(i) - 2) \o <<a, b>>

\* the two-dimensional discrete Fourier sum over the last two axes, without
\* any scaling: the kernel is conjugated when inverse
Dft2(x, inverse) ==
    [i \in Index(x.shape) |->
        SumTerms([ab \in (0..(x.shape[Ndim(x) - 1] - 1)) \X (0..(x.shape[Ndim(x)] - 1)) |->
                     CMul(x.data[AtLast2(i, ab[1], ab[2])],
                          CMul(Root(x.shape[Ndim(x) - 1], i[Ndim(x) - 1] * ab[1], inverse),
                               Root(x.shape[Ndim(x)], i[Ndim(x)] * ab[2], inverse)))],
                 x.shape[Ndim(x) - 1], x.shape[Ndim(x)], 0)]

\* np.fft.fft2(x, norm=None): the forward sum, not scaled
fft2(x) == [x EXCEPT !.data = Dft2(x, FALSE)]

\* np.fft.ifft2(x, norm=None): the inverse sum divided by the number of
\* entries of the last two axes
ifft2(x) ==
    [x EXCEPT !.data = Dft2(x, TRUE),
              !.den = @ * x.shape[Ndim(x) - 1] * x.shape[Ndim(x)]]

\* np.real(x)
real(x) == [x EXCEPT !.data = [i \in Index(x.shape) |-> <<x.data[i][1], 0>>]]

\* x * k for an integer k
times(x, k) == [x EXCEPT !.data = [i \in Index(x.shape) |-> CScale(x.data[i], k)]]

\* the result of a backend call that returned val, a new array
Returns(val) == [raised |-> NoExc, alias |-> "new", val |-> val]

\* the result of a backend call that raised
Raises(type, msg) == [raised |-> Exc(type, msg), alias |-> "none", val |-> NoArray]

\* fft(x, direction, inverse)
fft(x, direction, inverse) ==
    IF direction = "C2R" /\ ~inverse
    THEN Raises("RuntimeError", "C2R mode can only be done with an inverse FFT.")
    ELSE IF direction = "C2R"
    THEN Returns(times(times(real(ifft2(x)), x.shape[Ndim(x)]), x.shape[Ndim(x) - 1]))
    ELSE IF direction = "C2C"
    THEN IF inverse
         THEN Returns(times(times(ifft2(x), x.shape[Ndim(x)]), x.shape[Ndim(x) - 1]))
         ELSE Returns(fft2(x))
    ELSE Raises("UnboundLocalError", "local variable 'output' referenced before assignment")

----------------------------------------------------------------------------
(* SubsampleFourier.__call__ *)

\* y.mean(axis=(2, 4)) of y = x.reshape(B, C, f2, out2, f3, out3): entry
\* (r, s) is the mean of the f2 * f3 entries (a * out2 + r, e * out3 + s)
MeanAxes24(x, out2, out3) ==
    [shape |-> <<x.shape[1], x.shape[2], out2, out3>>,
     data  |-> [i \in Index(<<x.shape[1], x.shape[2], out2, out3>>) |->
                  SumTerms([ae \in (0..((x.shape[3] \div out2) - 1))
                                   \X (0..((x.shape[4] \div out3) - 1)) |->
                               x.data[<<i[1], i[2], ae[1] * out2 + i[3],
                                        ae[2] * out3 + i[4]>>]],
                           x.shape[3] \div out2, x.shape[4] \div out3, 0)],
     den   |-> x.den * (x.shape[3] \div out2) * (x.shape[4] \div out3)]

\* SubsampleFourier()(x, k)
SubsampleFourier(x, k) ==
    IF k = 0
    THEN Raises("ZeroDivisionError", "integer division or modulo by zero")
    ELSE IF x.shape[3] \div k = 0 \/ x.shape[4] \div k = 0
    THEN Raises("ZeroDivisionError", "integer division or modulo by zero")
    ELSE IF \/ (x.shape[3] \div (x.shape[3] \div k)) * (x.shape[3] \div k) # x.shape[3]
            \/ (x.shape[4] \div (x.shape[4] \div k)) * (x.shape[4] \div k) # x.shape[4]
    THEN Raises("ValueError", "cannot reshape array")
    ELSE Returns(MeanAxes24(x, x.shape[3] \div k, x.shape[4] \div k))

----------------------------------------------------------------------------
(* cdgmm *)

\* the length two broadcast axes of lengths a and b give (0 if they do not
\* broadcast)
BroadcastDim(a, b) == IF a = b \/ b = 1 THEN a ELSE IF a = 1 THEN b ELSE 0

\* the shape of X * Y for a 4-axis X and a 2-axis Y
BroadcastShape(X, Y) ==
    <<X.shape[1], X.shape[2],
      BroadcastDim(X.shape[3], Y.shape[1]), BroadcastDim(X.shape[4], Y.shape[2])>>

\* index component c on an axis of length n of a broadcast operand
Clip(c, n) == IF n = 1 THEN 0 ELSE c

\* X * Y: Y is broadcast over the first two axes of X
Multiply(X, Y) ==
    [shape |-> BroadcastShape(X, Y),
     data  |-> [i \in Index(BroadcastShape(X, Y)) |->
                  CMul(X.data[<<i[1], i[2], Clip(i[3], X.shape[3]), Clip(i[4], X.shape[4])>>],
                       Y.data[<<Clip(i[3], Y.shape[1]), Clip(i[4], Y.shape[2])>>])],
     den   |-> X.den * Y.den]

\* the result of a call that wrote its result into the caller's array
ReturnsArgument(val) == [raised |-> NoExc, alias |-> "A", val |-> val]

\* (mutant) with inplace the product is returned in a new array
cdgmm_copy(X, Y, inplace) ==
    IF Ndim(Y) # 2
    THEN Raises("RuntimeError", "The dimension of the second input must be 2.")
    ELSE IF 0 \in {BroadcastShape(X, Y)[3], BroadcastShape(X, Y)[4]}
    THEN Raises("ValueError", "operands could not be broadcast together")
    ELSE Returns(Multiply(X, Y))

\* cdgmm(A, B, inplace): what it raises or returns; alias "A" says that the
\* returned array is the argument A, which now holds val
cdgmm(X, Y, inplace) ==
    IF Ndim(Y) # 2
    THEN Raises("RuntimeError", "The dimension of the second input must be 2.")
    ELSE IF 0 \in {BroadcastShape(X, Y)[3], BroadcastShape(X, Y)[4]}
    THEN Raises("ValueError", "operands could not be broadcast together")
    ELSE IF inplace
    THEN IF BroadcastShape(X, Y) # X.shape
         THEN Raises("ValueError", "non-broadcastable output operand")
         ELSE ReturnsArgument(Multiply(X, Y))
    ELSE Returns(Multiply(X, Y))

----------------------------------------------------------------------------
(* The backend functions as operations *)

Sizes == {Pow2(e) : e \in 0..MaxLogSize}

\* the array of the given shape that is c everywhere but c + a at index p
Impulse(shape, c, a, p) ==
    [shape |-> shape,
     data  |-> [i \in Index(shape) |-> IF i = p THEN CAdd(c, a) ELSE c],
     den   |-> 1]

\* the arrays (B, 1, M, N) given to the backend: 0 or 1 everywhere, but for
\* one entry of the last array of the batch
InputArrays ==
    UNION {{Impulse(<<b, 1, m, n>>, c, <<0, 1>>, <<b - 1, 0, p[1], p[2]>>) :
               c \in {<<0, 0>>, <<1, 0>>}, p \in Index(<<m, n>>)} :
           b \in 1..MaxBatch, m \in Sizes, n \in Sizes}

\* the second operands given to cdgmm with the array X: of two axes (the
\* last two of X, or of another length), of one axis and of three
Operands(X) ==
    UNION {{Impulse(shape, <<1, 0>>, a, [d \in 1..Len(shape) |-> 0]) :
               a \in {<<0, 0>>, <<-1, 1>>}} :
           shape \in {<<X.shape[3], X.shape[4]>>, <<1, 1>>, <<2, X.shape[4]>>,
                      <<X.shape[4]>>, <<1, X.shape[3], X.shape[4]>>}}

\* the record of a backend call
Called(op, args, r) ==
    [called |-> TRUE, op |-> op, args |-> args,
     raised |-> r.raised, alias |-> r.alias, val |-> r.val]

\* ret = fft(A, direction, inverse), on the array as the caller made it
CallFft(direction, inverse) ==
    /\ B = NoArray
    /\ ret' = Called("fft", << <<direction, inverse>> >>, fft(A, direction, inverse))
    /\ UNCHANGED <<inputs, statics, object, A, B>>

\* ret = fft(ret, direction, inverse), on the array an fft call returned
CallFftAgain(direction, inverse) ==
    /\ B = NoArray
    /\ ret.called /\ ret.op = "fft" /\ ret.raised = NoExc
    /\ Len(ret.args) < MaxChain
    /\ ret' = Called("fft", Append(ret.args, <<direction, inverse>>),
                     fft(ret.val, direction, inverse))
    /\ UNCHANGED <<inputs, statics, object, A, B>>

\* ret = SubsampleFourier()(A, k), on the array as the caller made it
CallSubsampleFourier(k) ==
    /\ B = NoArray
    /\ ret' = Called("subsample_fourier", <<k>>, SubsampleFourier(A, k))
    /\ UNCHANGED <<inputs, statics, object, A, B>>

\* the array A after a call with result r
Written(r) == IF r.alias = "A" THEN r.val ELSE A

\* ret = cdgmm(A, b, inplace), which may overwrite A: the last call
CallCdgmm(b, inplace) ==
    /\ B = NoArray
    /\ B' = b
    /\ ret' = Called("cdgmm", <<inplace>>, cdgmm(A, b, inplace))
    /\ A' = Written(cdgmm(A, b, inplace))
    /\ UNCHANGED <<inputs, statics, object>>

InitNumpy ==
    /\ J = 0
    /\ Q = 1
    /\ calib = RegularCalibration(J, Q)
    /\ t_max_phi = 0
    /\ metaOut = NoCall
    /\ sizeOut = NoCall
    /\ self = NoObject
    /\ buffers = <<>>
    /\ call = NoOp
    /\ raised = NoExc
    /\ out = [kind |-> "none"]
    /\ A \in InputArrays
    /\ B = NoArray
    /\ ret = NoCall

NextNumpy ==
    \/ \E direction \in {"C2C", "C2R", "R2C"}, inverse \in BOOLEAN :
          CallFft(direction, inverse)
    \/ \E inverse \in BOOLEAN : CallFftAgain("C2C", inverse)
    \/ \E k \in 0..MaxK : CallSubsampleFourier(k)
    \/ \E b \in Operands(A), inplace \in BOOLEAN : CallCdgmm(b, inplace)

SpecNumpy == InitNumpy /\ [][NextNumpy]_vars

----------------------------------------------------------------------------
(* Properties of the path enumeration (checked under SpecMeta) *)

\* the pairs (n1, n2) of a first- and a second-order filter with j2 > j1
ValidPairs ==
    {pr \in (0..Len(calib.j1s) - 1) \X (0..Len(calib.j2s) - 1) :
        calib.j2s[pr[2] + 1] > calib.j1s[pr[1] + 1]}

\* the positions of the order-k paths in a key list
PathsOfOrder(keys, k) == {p \in 1..Len(keys) : Len(keys[p]) = k}

\* C1: the sum of the detailed size, the aggregate size and the number of
\* path keys of the metadata agree for the same (J, Q, max_order): one
\* order-0 path, one path per first-order filter and, when max_order is 2,
\* one path per enumerated order-2 pair.
Thm_C1_CountsAgree ==
    /\ (sizeOut.called /\ sizeOut.detail) =>
          /\ Len(sizeOut.ret) = sizeOut.max_order + 1
          /\ SumSeq(sizeOut.ret) =
                precompute_size_scattering(J, Q, sizeOut.max_order, FALSE)
          /\ LET keys == compute_meta_scattering(J, Q, sizeOut.max_order).key
             IN  \A k \in 0..sizeOut.max_order :
                    sizeOut.ret[k + 1] = Cardinality(PathsOfOrder(keys, k))
    /\ (sizeOut.called /\ ~sizeOut.detail) =>
          sizeOut.ret = Len(compute_meta_scattering(J, Q, sizeOut.max_order).key)
    /\ metaOut.called =>
          /\ Len(metaOut.ret.key) =
                precompute_size_scattering(J, Q, metaOut.max_order, FALSE)
          /\ Cardinality(PathsOfOrder(metaOut.ret.key, 0)) = 1
          /\ Cardinality(PathsOfOrder(metaOut.ret.key, 1)) = Len(calib.xi1s)
          /\ Cardinality(PathsOfOrder(metaOut.ret.key, 2)) =
                IF metaOut.max_order = 2 THEN Cardinality(ValidPairs) ELSE 0

\* C1 witness: both functions were called for max_order 2 on a calibration
\* that has a first-order filter and an order-2 path.
Wit_C1 ==
    /\ metaOut.called /\ metaOut.max_order = 2
    /\ sizeOut.called /\ sizeOut.max_order = 2 /\ sizeOut.detail
    /\ sizeOut.ret[2] >= 2 /\ sizeOut.ret[3] >= 1
    /\ Len(metaOut.ret.key) = SumSeq(sizeOut.ret)

\* C2: every enumerated and counted order-2 path (n1, n2) has j2 > j1, and
\* every pair of a first- and a second-order filter with j2 > j1 is
\* enumerated exactly once.
Thm_C2_StrictScaleOrder ==
    /\ (metaOut.called /\ metaOut.max_order = 2) =>
          LET keys == metaOut.ret.key
          IN  /\ \A p \in PathsOfOrder(keys, 2) :
                    /\ keys[p] \in ValidPairs
                    /\ metaOut.ret.j.data[p][2] > metaOut.ret.j.data[p][1]
              /\ \A pr \in ValidPairs :
                    Cardinality({p \in 1..Len(keys) : keys[p] = pr}) = 1
    /\ (sizeOut.called /\ sizeOut.max_order = 2) =>
          IF sizeOut.detail
          THEN sizeOut.ret[3] = Cardinality(ValidPairs)
          ELSE sizeOut.ret = 1 + Len(calib.xi1s) + Cardinality(ValidPairs)

\* C2 witness: an enumeration with max_order 2 in which some pair is kept
\* and some pair is left out.
Wit_C2 ==
    /\ metaOut.called /\ metaOut.max_order = 2
    /\ PathsOfOrder(metaOut.ret.key, 2) # {}
    /\ ValidPairs # (0..Len(calib.j1s) - 1) \X (0..Len(calib.j2s) - 1)
    /\ sizeOut.called /\ sizeOut.max_order = 2 /\ sizeOut.detail

\* lexicographic order of two keys of the same length
KeyBefore(a, b) ==
    \E i \in 1..Len(a) : a[i] < b[i] /\ \A h \in 1..(i - 1) : a[h] = b[h]

FilterValue(f, o, n) ==
    CASE f = "xi"    -> IF o = 1 THEN calib.xi1s[n + 1] ELSE calib.xi2s[n + 1]
      [] f = "sigma" -> IF o = 1 THEN calib.sigma1s[n + 1] ELSE calib.sigma2s[n + 1]
      [] f = "j"     -> IF o = 1 THEN calib.j1s[n + 1] ELSE calib.j2s[n + 1]
      [] f = "n"     -> n

\* C8: every row of xi, sigma, j and n has max_order entries: the values of
\* the k filters of the path, then max_order - k NaN; key is the unpadded
\* tuple of length k and order is k.
Thm_C8_RowsPadded ==
    metaOut.called =>
        LET m == metaOut.ret
            C == Len(m.key)
        IN  /\ m.order.shape = <<C>>
            /\ \A f \in {"xi", "sigma", "j", "n"} :
                  /\ m[f].shape = <<C, metaOut.max_order>>
                  /\ Len(m[f].data) = C
                  /\ \A p \in 1..C :
                        LET k == Len(m.key[p])
                        IN  /\ m.order.data[p] = k
                            /\ Len(m[f].data[p]) = metaOut.max_order
                            /\ \A o \in 1..k :
                                  m[f].data[p][o] = FilterValue(f, o, m.key[p][o])
                            /\ \A o \in (k + 1)..metaOut.max_order :
                                  m[f].data[p][o] = NaN

\* C8 witness: metadata for max_order 2 holding an order-1 and an order-2
\* row, so that rows padded by two, one and no NaN occur.
Wit_C8 ==
    /\ metaOut.called /\ metaOut.max_order = 2
    /\ PathsOfOrder(metaOut.ret.key, 1) # {}
    /\ PathsOfOrder(metaOut.ret.key, 2) # {}
    /\ \E p \in 1..Len(metaOut.ret.key) :
          metaOut.ret.xi.data[p] = <<NaN, NaN>>

----------------------------------------------------------------------------
(* Properties of the padding plan (checked under SpecBuild) *)

\* build has computed a padding plan
HasPlan == {"J_pad", "pad_left", "pad_right", "ind_start", "ind_end"} \subseteq self.attrs

LeastPow2AtLeast(n, top) ==
    IF \E k \in 0..top : Pow2(k) >= n
    THEN CHOOSE k \in 0..top : Pow2(k) >= n /\ \A h \in 0..(k - 1) : Pow2(h) < n
    ELSE top

\* the greatest k in 0..top with 2**k <= n
GreatestPow2AtMost(n, top) ==
    CHOOSE k \in 0..top : Pow2(k) <= n /\ \A h \in (k + 1)..top : Pow2(h) > n

CeilDiv(a, b) == (a + b - 1) \div b

----------------------------------------------------------------------------
(* Properties of construction and of forward *)

\* some filter entry does not hold the buffer registered for it
StaleFilters ==
    \E n \in 1..Len(buffers) :
        /\ buffers[n].filt[1] = 0
        /\ \E e \in 1..Len(self.phi_f) :
              /\ self.phi_f[e].key.type = "int"
              /\ self.phi_f[e].val.filt = buffers[n].filt
              /\ self.phi_f[e].val # buffers[n]

\* C3: forward on a transform with vectorize true and average false raises
\* a ValueError (the incompatible-options one whenever the input has an
\* axis) before the cascade: scattering1d is not invoked, nothing is
\* returned, and the object and its buffers are left as they were.
Thm_C3_ErrorBeforeCascade ==
    [][\A x_shape \in XShapes :
          (Forward(x_shape) /\ self.vectorize /\ ~self.average) =>
              /\ raised'.type = "ValueError"
              /\ Len(x_shape) >= 1 =>
                    raised'.msg = "Options average=False and vectorize=True are mutually incompatible. Please set vectorize to False."
              /\ ~call'.cascade
              /\ out' = NoOut
              /\ self' = self
              /\ buffers' = buffers]_vars

\* C3 witness: forward has raised the incompatible-options error on an
\* object whose buffers had moved, so that fetching the filters again would
\* have changed them.
Wit_C3 ==
    /\ call.op = "forward" /\ Len(call.x_shape) >= 1
    /\ self.vectorize /\ ~self.average
    /\ raised.type = "ValueError"
    /\ StaleFilters

\* the filter banks and the padding plan of the object
SharedState(s) ==
    <<s.phi_f, s.psi1_f, s.psi2_f,
      s.J_pad, s.pad_left, s.pad_right, s.ind_start, s.ind_end>>

\* C9 as stated: once the constructor has returned, no step (and so no
\* forward call) writes the filter banks or the padding plan.
Orig_C9_NeverWritten ==
    [][Constructed => SharedState(self') = SharedState(self)]_vars

\* C10 as stated: a configuration error detected while constructing through
\* Scattering1D(..., frontend=...) reaches the caller as that error (one of
\* the three configuration errors, not an exception raised in its place),
\* and no object is returned.
Orig_C10_ErrorSurfaced ==
    (call.op = "construct" /\ call.entry = "Scattering1D" /\ raised # NoExc) =>
        /\ out = NoOut
        /\ raised.context = <<>>
        /\ <<raised.type, raised.msg>> \in
              {<<"ValueError", "shape must be an integer or a 1-tuple">>,
               <<"ValueError", "If shape is specified as a tuple, it must have exactly one element">>,
               <<"RuntimeError", "This backend is not supported.">>,
               <<"RuntimeError", "This frontend is not available.">>}

----------------------------------------------------------------------------
(* The flags after construction *)

\* the object a constructor call with the present parameters and flags of s
\* gives
Fresh(s) ==
    init([NoObject EXCEPT !.cls = s.cls],
         [J |-> s.J, Q |-> s.Q, shape |-> s.shape, backend |-> s.backend,
          max_order |-> s.max_order, average |-> s.average,
          vectorize |-> s.vectorize, oversampling |-> s.oversampling])

\* what forward raises and returns, whatever device the buffers are on
Outcome(r) == <<r.raised, r.out, r.cascade>>

\* what forward raises and returns on the newly constructed object f
OutcomeOn(f, x_shape) == Outcome(forward(f.self, f.buffers, x_shape))

\* some step assigns a flag
SetsFlag ==
    \/ \E v \in BOOLEAN : SetFlag("average", v)
    \/ \E v \in BOOLEAN : SetFlag("vectorize", v)
    \/ \E v \in 0..MaxOversampling : SetFlag("oversampling", v)

----------------------------------------------------------------------------
(* The shape of what forward returns *)

\* self.output_size(detail)
output_size(s, detail) == precompute_size_scattering(s.J, s.Q, s.max_order, detail)

\* self.meta()
meta(s) == compute_meta_scattering(s.J, s.Q, s.max_order)

\* sequence b is the beginning of sequence a
StartsWith(a, b) == Len(a) >= Len(b) /\ SubSeq(a, 1, Len(b)) = b

\* C12 as stated: forward rejects an input without any axis; for an input
\* of shape batch_shape + (T,) and compatible flags it returns, with
\* vectorize, one array of shape batch_shape + (C, T1), C = output_size(),
\* and without vectorize a dictionary of C keys, each a tuple as long as the
\* order of its path, whose values all begin with batch_shape.
Orig_C12_OutputShape ==
    call.op = "forward" =>
        IF Len(call.x_shape) = 0 THEN raised # NoExc /\ out = NoOut
        ELSE IF self.vectorize /\ ~self.average THEN raised # NoExc
        ELSE /\ raised = NoExc
             /\ self.vectorize =>
                   /\ out.kind = "tensor"
                   /\ Len(out.shape) = Len(call.x_shape) + 1
                   /\ StartsWith(out.shape, batch_shape(call.x_shape))
                   /\ out.shape[Len(call.x_shape)] = output_size(self, FALSE)
             /\ ~self.vectorize =>
                   /\ out.kind = "dict"
                   /\ Len(out.keys) = output_size(self, FALSE)
                   /\ \A p \in 1..Len(out.keys) :
                         /\ Len(out.keys[p]) = meta(self).order.data[p]
                         /\ Len(out.shapes[p]) = Len(call.x_shape) + 1
                         /\ StartsWith(out.shapes[p], batch_shape(call.x_shape))

----------------------------------------------------------------------------
(* Properties of the numpy backend (checked under SpecNumpy) *)

\* arrays a and b have the same shape and the same values
SameArray(a, b) ==
    /\ a.shape = b.shape
    /\ \A i \in Index(a.shape) : CScale(a.data[i], b.den) = CScale(b.data[i], a.den)

\* C13 as stated: fft(fft(x, 'C2C', inverse=False), 'C2C', inverse=True)
\* has the values of x.
Orig_C13_RoundTrip ==
    (/\ ret.called /\ ret.op = "fft" /\ ret.raised = NoExc
     /\ ret.args = << <<"C2C", FALSE>>, <<"C2C", TRUE>> >>)
        => SameArray(ret.val, A)

\* the sum of the entries of x whose row index is congruent to r modulo m
\* and whose column index is congruent to s modulo n, in batch b, channel c
PeriodizedSum(x, b, c, r, s, m, n) ==
    SumTerms([ae \in (0..((x.shape[3] \div m) - 1)) \X (0..((x.shape[4] \div n) - 1)) |->
                 x.data[<<b, c, ae[1] * m + r, ae[2] * n + s>>]],
             x.shape[3] \div m, x.shape[4] \div n, 0)

\* y is x subsampled by the factor f along both spatial axes: of size
\* (M / f) x (N / f), each entry the average of the f * f periodized entries
SubsampledBy(y, x, f) ==
    /\ y.shape = <<x.shape[1], x.shape[2], x.shape[3] \div f, x.shape[4] \div f>>
    /\ \A i \in Index(y.shape) :
          CScale(y.data[i], f * f * x.den) =
              CScale(PeriodizedSum(x, i[1], i[2], i[3], i[4],
                                   x.shape[3] \div f, x.shape[4] \div f),
                     y.den)

\* C14 as stated: for M and N divisible by 2**k, SubsampleFourier()(x, k)
\* returns x subsampled by 2**k.
Orig_C14_SubsampleBy2PowK ==
    (/\ ret.called /\ ret.op = "subsample_fourier"
     /\ A.shape[3] % Pow2(ret.args[1]) = 0
     /\ A.shape[4] % Pow2(ret.args[1]) = 0)
        => /\ ret.raised = NoExc
           /\ SubsampledBy(ret.val, A, Pow2(ret.args[1]))

----------------------------------------------------------------------------
(* Properties of the constructors (checked under SpecBuild) *)

\* the attributes build computes after the shape check
PlanAndFilters ==
    {"J_pad", "pad_left", "pad_right", "ind_start", "ind_end",
     "phi_f", "psi1_f", "psi2_f"}

\* the frontend class was called and build reached its shape check
ShapeChecked ==
    /\ call.op = "construct" /\ call.entry = "Scattering1DTorch"
    /\ raised.msg # "This backend is not supported."

Parameters ==
    {"J", "shape", "Q", "max_order", "average", "oversampling", "vectorize",
     "backend"}

\* C16: Scattering1D(...) without the 'frontend' keyword selects the numpy
\* frontend; with 'numpy', 'torch' or 'tensorflow' the object's class is the
\* matching frontend class and its constructor has run on the other
\* arguments, the keyword removed; any other value raises
\* RuntimeError('This frontend is not available.'), the class unchanged and
\* no constructor run.
Thm_C16_FrontendDispatch ==
    (call.op = "construct" /\ call.entry = "Scattering1D") =>
        /\ call.frontend = "" => self.cls = "Scattering1DNumpy"
        /\ call.frontend = "numpy" => self.cls = "Scattering1DNumpy"
        /\ call.frontend = "torch" => self.cls = "Scattering1DTorch"
        /\ call.frontend = "tensorflow" => self.cls = "Scattering1DTensorflow"
        /\ call.frontend \in {"", "numpy", "torch", "tensorflow"} =>
              /\ Parameters \subseteq self.attrs
              /\ "frontend" \notin self.attrs
              /\ self.J = J /\ self.Q = Q
        /\ call.frontend \notin {"", "numpy", "torch", "tensorflow"} =>
              /\ raised = Exc("RuntimeError", "This frontend is not available.")
              /\ out = NoOut
              /\ self = [NoObject EXCEPT !.cls = "Scattering1D"]
              /\ buffers = <<>>

\* C16 witness: Scattering1D(...) without the keyword has returned an
\* object of the numpy frontend class, with its filters.
Wit_C16 ==
    /\ call.op = "construct" /\ call.entry = "Scattering1D" /\ call.frontend = ""
    /\ raised = NoExc /\ out.kind = "object"
    /\ self.cls = "Scattering1DNumpy" /\ self.backend = "numpy"
    /\ Constructed

----------------------------------------------------------------------------
(* The numbering of the filter buffers (checked under Spec) *)

\* the entry is one resolution of a filter, not its metadata
IsTensorEntry(e) == e.key.type # "str"

\* the arrays a filter dictionary holds under its non-string keys, in order
TensorsOf(d) ==
    [i \in 1..Len(SelectSeq(d, IsTensorEntry)) |-> SelectSeq(d, IsTensorEntry)[i].val]

\* the same for every filter of a list, from filter i on
RECURSIVE TensorsOfList(_, _)
TensorsOfList(list, i) ==
    IF i > Len(list) THEN <<>>
    ELSE TensorsOf(list[i]) \o TensorsOfList(list, i + 1)

\* the arrays of phi_f, of each first-order and of each second-order filter
Traversal(s) ==
    TensorsOf(s.phi_f) \o TensorsOfList(s.psi1_f, 1) \o TensorsOfList(s.psi2_f, 1)

\* forward went past its checks of the input and of the flags
RefreshRan ==
    /\ call.op = "forward" /\ Len(call.x_shape) >= 1
    /\ ~(self.vectorize /\ ~self.average)

\* C17 as stated: the constructor registers the arrays of phi_f, psi1_f and
\* psi2_f as 'tensor0', 'tensor1', ... in traversal order, and after the
\* refresh step of forward every such entry holds the buffer registered for
\* it.
Orig_C17_BuffersNumbered ==
    /\ (call.op = "construct" /\ raised = NoExc) => Traversal(self) = buffers
    /\ RefreshRan => Traversal(self) = buffers

----------------------------------------------------------------------------
(* cdgmm (checked under SpecNumpy) *)

\* P is the pointwise product of X by Y, Y the same for every batch and
\* channel index
PointwiseProduct(P, X, Y) ==
    /\ P.shape = X.shape
    /\ P.den = X.den * Y.den
    /\ \A i \in Index(X.shape) :
          P.data[i] = CMul(X.data[i], Y.data[<<i[3], i[4]>>])

\* C18: cdgmm(A, B, inplace) raises RuntimeError for a B that has not two
\* axes and leaves A as it was; for a B of the spatial shape of A, with
\* inplace false it returns the pointwise product in a new array and leaves
\* A as it was, with inplace true it returns A itself, which then holds the
\* product.
Thm_C18_Cdgmm ==
    [][\A inplace \in BOOLEAN :
          CallCdgmm(B', inplace) =>
              /\ Ndim(B') # 2 =>
                    /\ ret'.raised = Exc("RuntimeError",
                                         "The dimension of the second input must be 2.")
                    /\ ret'.alias = "none"
                    /\ A' = A
              /\ (Ndim(B') = 2 /\ B'.shape = <<A.shape[3], A.shape[4]>>) =>
                    /\ ret'.raised = NoExc
                    /\ PointwiseProduct(ret'.val, A, B')
                    /\ ~inplace => ret'.alias = "new" /\ A' = A
                    /\ inplace => ret'.alias = "A" /\ A' = ret'.val]_vars

\* C18 witness: an in-place call has overwritten a batch of two arrays with
\* their product by a B whose entries differ, and the product is not zero.
Wit_C18 ==
    /\ ret.called /\ ret.op = "cdgmm" /\ ret.args = <<TRUE>>
    /\ ret.alias = "A" /\ A = ret.val
    /\ A.shape[1] = 2 /\ A.shape[4] = 2
    /\ B.shape = <<A.shape[3], A.shape[4]>>
    /\ B.data[<<0, 0>>] = <<0, 1>> /\ B.data[<<0, 1>>] = <<1, 0>>
    /\ \E i \in Index(A.shape) : i[1] = 1 /\ A.data[i] # <<0, 0>>

====
